---- MODULE Spec2Model ----
(***************************************************************************)
(* Hand-gesture control pipeline of VibeCAD:                               *)
(*   GestureDetector (per video frame)  ->  Sandbox3D state                *)
(*   -> useSmoothedGesture (React effects) -> GestureCameraController /    *)
(*   GestureObjectController (per render frame).                           *)
(*                                                                         *)
(* Angles are exact fixed-point numbers: an integer n stands for n/Scale   *)
(* degrees.  A nullable number (number | null) is a sequence of length at  *)
(* most one: <<>> is null, <<n>> is the number n.  The non-finite numbers  *)
(* are sequences of length two.                                           *)
(***************************************************************************)
EXTENDS Integers, Sequences, FiniteSets, TLC

\* ---------------------------------------------------------------- bounds
\* Longest chain of exponential-filter steps that stays exact in fixed point.
MaxFilterDepth == 3
\* Fixed-point units per degree.
Scale == 10 ^ MaxFilterDepth
\* Date.now() (ms since mount) is not advanced past this value.
MaxTime == 200
\* Cap on sameGestureCountRef.
MaxSameCount == 3
\* normalizeAngle is called on angles of at most this many degrees, either sign.
MaxAngle == 720

\* ------------------------------------------------------------- numbers
Null == <<>>
Some(v) == <<v>>
IsNull(x) == x = <<>>
Val(x) == x[1]

\* The numbers that are not finite, and the tests of JavaScript for them.
NaN == <<0, 0>>
Infinity == <<1, 0>>
NegInfinity == <<-1, 0>>
isNaN(x) == x = NaN
isFinite(x) == Len(x) = 1

Abs(x) == IF x < 0 THEN -x ELSE x
Max3(a, b, c) == IF a >= b /\ a >= c THEN a ELSE IF b >= c THEN b ELSE c
Deg(d) == d * Scale

\* THREE.MathUtils.clamp(value, min, max)
clamp(value, lo, hi) == IF value < lo THEN lo ELSE IF value > hi THEN hi ELSE value

\* Principal value, in whole degrees, of the angle Math.atan2 returns for a
\* vector pointing in direction a (degrees): the result lies in (-180, 180].
Atan2Deg(a) == ((a + 179) % 360) - 179

\* The % operator of JavaScript: the remainder takes the sign of the dividend.
JsRem(a, b) == IF a >= 0 THEN a % b ELSE -((-a) % b)

\* Variant of normalizeAngle that takes off one turn from an angle above 180.
normalizeAngle_singleWrap(a) == IF a > Deg(180) THEN a - Deg(360) ELSE a

\* normalizeAngle of the detector, on fixed-point degrees.
normalizeAngle(a) == JsRem(a + Deg(180), Deg(360)) - Deg(180)

\* --------------------------------------------------------- gesture names
Directions == {"UP", "DOWN", "LEFT", "RIGHT"}
Zooms == {"ZOOM IN", "ZOOM OUT"}
GestureType == Zooms \cup Directions \cup {"UNKNOWN"}

\* ------------------------------------------------------------ hand poses
\* A HandPose is described by the features the detector derives from the 21
\* landmarks:
\*   cos     cosine (x100) of the angle between MCP->PIP and PIP->TIP of
\*           index, middle, ring, pinky
\*   pinch   thumb-tip to index-tip distance (x100, normalized image units)
\*   dir     direction (degrees) of the mirrored wrist->index-tip vector
\*   elev    elevation (degrees) of the wrist->middle-tip vector
\*   normal  azimuth (degrees) of the palm normal in the X/-Z plane
\*   cross   direction (degrees) of the pinky-MCP->index-MCP vector
\*   pinkyMcpNaN  the coordinates of the pinky MCP landmark are NaN
\*   count   number of landmarks in the list
\* A straight finger has cosine 95, a folded one -20.
Pose(ci, cm, cr, cp, pinch, dir, elev, normal, cross) ==
  [cos |-> <<ci, cm, cr, cp>>, pinch |-> pinch, dir |-> dir,
   elev |-> elev, normal |-> normal, cross |-> cross, pinkyMcpNaN |-> FALSE,
   count |-> 21]

FistPose(elev, normal, cross) ==
  Pose(-20, -20, -20, -20, 20, 0, elev, normal, cross)

\* ------------------------------------------------------------- detector
\* drawHandLandmarks reads .x of both ends of every connection, and the
\* connections name every index from 0 to 20: on a list with fewer than 21
\* landmarks the read of a property of undefined throws a TypeError.
drawHandLandmarks(landmarks) ==
  IF landmarks.count < 21 THEN "TypeError" ELSE "drawn"

isFingerExtended(cosAngle) == cosAngle > 70

fingersUp(landmarks) ==
  [i \in 1..4 |-> IF isFingerExtended(landmarks.cos[i]) THEN 1 ELSE 0]

\* Variant of isFistClosedCheck that accepts one extended finger.
isFistClosedCheck_atMostOne(landmarks) ==
  LET states == fingersUp(landmarks)
  IN  states[1] + states[2] + states[3] + states[4] <= 1

isFistClosedCheck(landmarks) ==
  LET states == fingersUp(landmarks)
  IN  states[1] + states[2] + states[3] + states[4] = 0

\* Variant of detectDirection whose Up and Down ranges are open.
detectDirection_openRanges(landmarks) ==
  LET angle == Atan2Deg(landmarks.dir)
  IN  IF angle > 45 /\ angle < 135 THEN "UP"
      ELSE IF angle > -135 /\ angle < -45 THEN "DOWN"
      ELSE IF angle > -45 /\ angle < 45 THEN "RIGHT"
      ELSE "LEFT"

detectDirection(landmarks) ==
  LET angle == Atan2Deg(landmarks.dir)
  IN  IF angle >= 45 /\ angle <= 135 THEN "UP"
      ELSE IF angle >= -135 /\ angle <= -45 THEN "DOWN"
      ELSE IF angle > -45 /\ angle < 45 THEN "RIGHT"
      ELSE "LEFT"

detectPointingGesture(landmarks) == fingersUp(landmarks) = <<1, 1, 0, 0>>

\* Variant of detectGesture that tests the pointing index finger before the
\* pinch.
detectGesture_directionFirst(landmarks) ==
  LET states == fingersUp(landmarks)
      pinchDistance == landmarks.pinch
  IN  IF states = <<1, 1, 1, 1>> THEN "ZOOM OUT"
      ELSE IF states = <<1, 0, 0, 0>> THEN detectDirection(landmarks)
      ELSE IF pinchDistance < 5 THEN "ZOOM IN"
      ELSE "UNKNOWN"

\* Variant of detectGesture that tests the pinch before the open hand.
detectGesture_pinchFirst(landmarks) ==
  LET states == fingersUp(landmarks)
      pinchDistance == landmarks.pinch
  IN  IF pinchDistance < 5 THEN "ZOOM IN"
      ELSE IF states = <<1, 1, 1, 1>> THEN "ZOOM OUT"
      ELSE IF states = <<1, 0, 0, 0>> THEN detectDirection(landmarks)
      ELSE "UNKNOWN"

detectGesture(landmarks) ==
  LET states == fingersUp(landmarks)
      pinchDistance == landmarks.pinch
  IN  IF states = <<1, 1, 1, 1>> THEN "ZOOM OUT"
      ELSE IF pinchDistance < 5 THEN "ZOOM IN"
      ELSE IF states = <<1, 0, 0, 0>> THEN detectDirection(landmarks)
      ELSE "UNKNOWN"

\* pitch is amplified by 1.5; yaw and roll are the raw atan2 values.  The
\* palm normal and the palm cross vector are computed from the pinky MCP
\* landmark: they, and yaw and roll with them, are NaN when it is NaN.
getHandOrientation(landmarks) ==
  [pitch |-> Some((Deg(landmarks.elev) * 3) \div 2),
   yaw   |-> IF landmarks.pinkyMcpNaN THEN NaN
             ELSE Some(Deg(Atan2Deg(landmarks.normal))),
   roll  |-> IF landmarks.pinkyMcpNaN THEN NaN
             ELSE Some(Deg(Atan2Deg(landmarks.cross)))]

\* Variant of processFrame that leaves the fist flag set when no hand is
\* found.
processFrame_fistStays(results) ==
  IF Len(results) > 0 THEN
    LET landmarks == results[1]
        fistClosed == isFistClosedCheck(landmarks)
    IN  IF detectPointingGesture(landmarks) THEN
          [gesture |-> "UNKNOWN", pitch |-> Null, yaw |-> Null, roll |-> Null,
           fist |-> fistClosed]
        ELSE
          LET gesture == detectGesture(landmarks) IN
          IF gesture # "UNKNOWN" THEN
            [gesture |-> gesture, pitch |-> Null, yaw |-> Null, roll |-> Null,
             fist |-> fistClosed]
          ELSE IF fistClosed THEN
            LET orientation == getHandOrientation(landmarks) IN
            [gesture |-> "UNKNOWN", pitch |-> orientation.pitch,
             yaw |-> orientation.yaw, roll |-> orientation.roll,
             fist |-> fistClosed]
          ELSE
            [gesture |-> "UNKNOWN", pitch |-> Null, yaw |-> Null, roll |-> Null,
             fist |-> fistClosed]
  ELSE
    [gesture |-> "UNKNOWN", pitch |-> Null, yaw |-> Null, roll |-> Null,
     fist |-> TRUE]

\* Variant of processFrame that reports the orientation of every closed
\* fist, also when a gesture was recognised.
processFrame_orientationOfEveryFist(results) ==
  IF Len(results) > 0 THEN
    LET landmarks == results[1]
        fistClosed == isFistClosedCheck(landmarks)
    IN  IF detectPointingGesture(landmarks) THEN
          [gesture |-> "UNKNOWN", pitch |-> Null, yaw |-> Null, roll |-> Null,
           fist |-> fistClosed]
        ELSE
          LET gesture == detectGesture(landmarks)
              orientation == getHandOrientation(landmarks)
          IN  IF fistClosed THEN
                [gesture |-> gesture, pitch |-> orientation.pitch,
                 yaw |-> orientation.yaw, roll |-> orientation.roll,
                 fist |-> fistClosed]
              ELSE
                [gesture |-> gesture, pitch |-> Null, yaw |-> Null,
                 roll |-> Null, fist |-> fistClosed]
  ELSE
    [gesture |-> "UNKNOWN", pitch |-> Null, yaw |-> Null, roll |-> Null,
     fist |-> FALSE]

\* One pass of processFrame over a new video frame.  results is the
\* landmark list of the HandLandmarker: <<>> (no hand) or <<pose>>.
\* The value is the detector state after the frame.
processFrame(results) ==
  IF Len(results) > 0 THEN
    LET landmarks == results[1]
        fistClosed == isFistClosedCheck(landmarks)
    IN  IF detectPointingGesture(landmarks) THEN
          [gesture |-> "UNKNOWN", pitch |-> Null, yaw |-> Null, roll |-> Null,
           fist |-> fistClosed]
        ELSE
          LET gesture == detectGesture(landmarks) IN
          IF gesture # "UNKNOWN" THEN
            [gesture |-> gesture, pitch |-> Null, yaw |-> Null, roll |-> Null,
             fist |-> fistClosed]
          ELSE IF fistClosed THEN
            LET orientation == getHandOrientation(landmarks) IN
            [gesture |-> "UNKNOWN", pitch |-> orientation.pitch,
             yaw |-> orientation.yaw, roll |-> orientation.roll,
             fist |-> fistClosed]
          ELSE
            [gesture |-> "UNKNOWN", pitch |-> Null, yaw |-> Null, roll |-> Null,
             fist |-> fistClosed]
  ELSE
    [gesture |-> "UNKNOWN", pitch |-> Null, yaw |-> Null, roll |-> Null,
     fist |-> FALSE]

\* ------------------------------------------------------------- smoother
\* Variant of isZoomGesture that never recognises a zoom: zoom gestures then
\* get the grace window like any other gesture.
isZoomGesture_never(lastValidGesture) == FALSE

\* The special case of the gesture effect for zoom gestures.
isZoomGesture(lastValidGesture) ==
  lastValidGesture = "ZOOM IN" \/ lastValidGesture = "ZOOM OUT"

\* Variant of gestureEffect that buffers the gesture symbol: a gesture that
\* differs from the last one is remembered but not emitted.
gestureEffect_buffered(gesture, t, s) ==
  IF gesture = "UNKNOWN" THEN
    LET s1 == [s EXCEPT !.unknownCountRef = @ + 1]
        timeSinceLastValid == t - s.lastValidTimeRef
    IN  IF isZoomGesture(s.lastValidGestureRef) THEN
          [s1 EXCEPT !.lastValidGestureRef = "UNKNOWN",
                     !.smoothedGesture = "UNKNOWN",
                     !.sameGestureCountRef = 0]
        ELSE IF timeSinceLastValid < 100 /\ s.lastValidGestureRef # "UNKNOWN" THEN
          [s1 EXCEPT !.smoothedGesture = s.lastValidGestureRef]
        ELSE
          [s1 EXCEPT !.lastValidGestureRef = "UNKNOWN",
                     !.smoothedGesture = "UNKNOWN",
                     !.sameGestureCountRef = 0]
  ELSE
    LET s1 == [s EXCEPT !.unknownCountRef = 0] IN
    IF gesture = s.lastGestureRef THEN
      LET s2 == [s1 EXCEPT !.sameGestureCountRef = @ + 1] IN
      IF s2.sameGestureCountRef >= 1 THEN
        [s2 EXCEPT !.lastValidGestureRef = gesture,
                   !.lastValidTimeRef = t,
                   !.smoothedGesture = gesture,
                   !.lastGestureRef = gesture]
      ELSE [s2 EXCEPT !.lastGestureRef = gesture]
    ELSE
      [s1 EXCEPT !.sameGestureCountRef = 0,
                 !.lastGestureRef = gesture]

\* Body of the gesture effect of useSmoothedGesture, run with Date.now() = t
\* on the refs and state s.
gestureEffect(gesture, t, s) ==
  IF gesture = "UNKNOWN" THEN
    LET s1 == [s EXCEPT !.unknownCountRef = @ + 1]
        timeSinceLastValid == t - s.lastValidTimeRef
    IN  IF isZoomGesture(s.lastValidGestureRef) THEN
          [s1 EXCEPT !.lastValidGestureRef = "UNKNOWN",
                     !.smoothedGesture = "UNKNOWN",
                     !.sameGestureCountRef = 0]
        ELSE IF timeSinceLastValid < 100 /\ s.lastValidGestureRef # "UNKNOWN" THEN
          [s1 EXCEPT !.smoothedGesture = s.lastValidGestureRef]
        ELSE
          [s1 EXCEPT !.lastValidGestureRef = "UNKNOWN",
                     !.smoothedGesture = "UNKNOWN",
                     !.sameGestureCountRef = 0]
  ELSE
    LET s1 == [s EXCEPT !.unknownCountRef = 0] IN
    IF gesture = s.lastGestureRef THEN
      LET s2 == [s1 EXCEPT !.sameGestureCountRef = @ + 1] IN
      IF s2.sameGestureCountRef >= 1 THEN
        [s2 EXCEPT !.lastValidGestureRef = gesture,
                   !.lastValidTimeRef = t,
                   !.smoothedGesture = gesture,
                   !.lastGestureRef = gesture]
      ELSE [s2 EXCEPT !.lastGestureRef = gesture]
    ELSE
      [s1 EXCEPT !.sameGestureCountRef = 1,
                 !.lastValidGestureRef = gesture,
                 !.lastValidTimeRef = t,
                 !.smoothedGesture = gesture,
                 !.lastGestureRef = gesture]

\* Variant of orientationEffect without the tests for NaN and Infinity; a
\* non-finite operand makes the weighted sum non-finite.
orientationEffect_unguarded(raw, smoothed) ==
  IF ~IsNull(raw) THEN
    IF IsNull(smoothed) THEN raw
    ELSE IF ~isFinite(raw) THEN raw
    ELSE IF ~isFinite(smoothed) THEN smoothed
    ELSE Some((Val(raw) * 7 + Val(smoothed) * 3) \div 10)
  ELSE Null

\* Variant of orientationEffect that holds the filtered value while the raw
\* value is not available.
orientationEffect_hold(raw, smoothed) ==
  IF ~IsNull(raw) /\ ~isNaN(raw) /\ isFinite(raw) THEN
    IF IsNull(smoothed) THEN raw
    ELSE Some((Val(raw) * 7 + Val(smoothed) * 3) \div 10)
  ELSE smoothed

\* Body of one orientation effect: raw is the raw value of the axis, smoothed
\* the value of the axis's state in the render the effect closes over.
orientationEffect(raw, smoothed) ==
  IF ~IsNull(raw) /\ ~isNaN(raw) /\ isFinite(raw) THEN
    IF IsNull(smoothed) THEN raw
    ELSE Some((Val(raw) * 7 + Val(smoothed) * 3) \div 10)
  ELSE Null

\* Variant of pitchEffects in which the second effect filters the value the
\* first effect has set.
pitchEffects_chained(raw, smoothed) ==
  LET first == orientationEffect(raw, smoothed)
      second == orientationEffect(raw, first)
  IN  second

\* The pitch effect is registered twice.  Both effects run after the same
\* render and read the smoothedPitch of that render; each calls
\* setSmoothedPitch with a value, and the later call wins.
pitchEffects(raw, smoothed) ==
  LET first == orientationEffect(raw, smoothed)
      second == orientationEffect(raw, smoothed)
  IN  second

\* The filter step is exact in the fixed-point representation.
ExactStep(raw, smoothed) ==
  IF ~isFinite(raw) THEN TRUE
  ELSE IF IsNull(smoothed) THEN TRUE
  ELSE (Val(raw) * 7 + Val(smoothed) * 3) % 10 = 0

\* ---------------------------------------------------------- controllers
\* Dead zones of both controllers (degrees 2.5, 3.5, 3.0).
pitchDeadZone == (25 * Scale) \div 10
yawDeadZone == (35 * Scale) \div 10
rollDeadZone == (30 * Scale) \div 10

NoRotation == [z |-> 0, y |-> 0, x |-> 0]
NoDelta == <<>>

\* Variant of CamRotationAxis whose dominance margins are inclusive (>=).
CamRotationAxis_inclusiveMargins(pitchDelta, yawDelta, rollDelta) ==
  LET absPitch == Abs(pitchDelta)
      absYaw == Abs(yawDelta)
      absRoll == Abs(rollDelta)
      maxDelta == Max3(absPitch, absYaw, absRoll)
  IN  IF absPitch = maxDelta /\ absPitch > pitchDeadZone THEN
        IF absPitch * 10 >= absYaw * 13 /\ absPitch * 10 >= absRoll * 13
        THEN "pitch" ELSE "none"
      ELSE IF absYaw = maxDelta /\ absYaw > yawDeadZone THEN
        IF absYaw * 10 >= absPitch * 14 /\ absYaw * 10 >= absRoll * 18
        THEN "yaw" ELSE "none"
      ELSE IF absRoll = maxDelta /\ absRoll > rollDeadZone THEN
        IF absRoll * 10 >= absPitch * 14 /\ absRoll * 10 >= absYaw * 16
        THEN "roll" ELSE "none"
      ELSE "none"

\* Variant of CamRotationAxis whose dead zones are inclusive (>=).
CamRotationAxis_inclusiveDeadZone(pitchDelta, yawDelta, rollDelta) ==
  LET absPitch == Abs(pitchDelta)
      absYaw == Abs(yawDelta)
      absRoll == Abs(rollDelta)
      maxDelta == Max3(absPitch, absYaw, absRoll)
  IN  IF absPitch = maxDelta /\ absPitch >= pitchDeadZone THEN
        IF absPitch * 10 > absYaw * 13 /\ absPitch * 10 > absRoll * 13
        THEN "pitch" ELSE "none"
      ELSE IF absYaw = maxDelta /\ absYaw >= yawDeadZone THEN
        IF absYaw * 10 > absPitch * 14 /\ absYaw * 10 > absRoll * 18
        THEN "yaw" ELSE "none"
      ELSE IF absRoll = maxDelta /\ absRoll >= rollDeadZone THEN
        IF absRoll * 10 > absPitch * 14 /\ absRoll * 10 > absYaw * 16
        THEN "roll" ELSE "none"
      ELSE "none"

\* GestureCameraController: choice of the rotation axis from the deltas.
CamRotationAxis(pitchDelta, yawDelta, rollDelta) ==
  LET absPitch == Abs(pitchDelta)
      absYaw == Abs(yawDelta)
      absRoll == Abs(rollDelta)
      maxDelta == Max3(absPitch, absYaw, absRoll)
  IN  IF absPitch = maxDelta /\ absPitch > pitchDeadZone THEN
        IF absPitch * 10 > absYaw * 13 /\ absPitch * 10 > absRoll * 13
        THEN "pitch" ELSE "none"
      ELSE IF absYaw = maxDelta /\ absYaw > yawDeadZone THEN
        IF absYaw * 10 > absPitch * 14 /\ absYaw * 10 > absRoll * 18
        THEN "yaw" ELSE "none"
      ELSE IF absRoll = maxDelta /\ absRoll > rollDeadZone THEN
        IF absRoll * 10 > absPitch * 14 /\ absRoll * 10 > absYaw * 16
        THEN "roll" ELSE "none"
      ELSE "none"

\* Variant of CamApplyRotation with one independent test per axis instead of
\* the single chosen axis: every axis beyond its dead zone is rotated.
CamApplyRotation_everyAxis(rotationAxis, pitchDelta, yawDelta, rollDelta) ==
  [z |-> IF Abs(pitchDelta) > pitchDeadZone
         THEN clamp(pitchDelta, Deg(-15), Deg(15)) * 9 ELSE 0,
   y |-> IF Abs(yawDelta) > yawDeadZone
         THEN clamp(yawDelta, Deg(-15), Deg(15)) * 9 ELSE 0,
   x |-> IF Abs(rollDelta) > rollDeadZone
         THEN clamp(rollDelta, Deg(-15), Deg(15)) * 9 ELSE 0]

\* GestureCameraController: the orbit applied for the chosen axis.  The
\* fields are the angles of the orbit about the world Z, Y and X axes, in
\* tenths of a fixed-point unit (the clamped delta times 0.9).
CamApplyRotation(rotationAxis, pitchDelta, yawDelta, rollDelta) ==
  IF rotationAxis = "pitch" THEN
    [NoRotation EXCEPT !.z = clamp(pitchDelta, Deg(-15), Deg(15)) * 9]
  ELSE IF rotationAxis = "yaw" THEN
    [NoRotation EXCEPT !.y = clamp(yawDelta, Deg(-15), Deg(15)) * 9]
  ELSE IF rotationAxis = "roll" THEN
    [NoRotation EXCEPT !.x = clamp(rollDelta, Deg(-15), Deg(15)) * 9]
  ELSE NoRotation

\* One useFrame callback of GestureCameraController on props p and refs r.
\* The value holds the refs after the frame, the deltas the frame computed
\* (NoDelta when it computed none) and the rotation it applied.
CameraUseFrame(p, r) ==
  IF p.resetCamera THEN
    [refs |-> r, delta |-> NoDelta, rot |-> NoRotation]
  ELSE IF p.gesture \in Directions \cup Zooms THEN
    [refs |-> [lastPitchRef |-> Null, lastYawRef |-> Null, lastRollRef |-> Null],
     delta |-> NoDelta, rot |-> NoRotation]
  ELSE IF p.rotationEnabled /\ p.isFistClosed
          /\ ~IsNull(p.pitch) /\ ~IsNull(p.yaw) /\ ~IsNull(p.roll) THEN
    LET newRefs == [lastPitchRef |-> p.pitch, lastYawRef |-> p.yaw,
                    lastRollRef |-> p.roll]
    IN  IF ~IsNull(r.lastPitchRef) /\ ~IsNull(r.lastYawRef) /\ ~IsNull(r.lastRollRef) THEN
          LET pitchDelta == Val(p.pitch) - Val(r.lastPitchRef)
              yawDelta == Val(p.yaw) - Val(r.lastYawRef)
              rollDelta == Val(p.roll) - Val(r.lastRollRef)
              rotationAxis == CamRotationAxis(pitchDelta, yawDelta, rollDelta)
          IN  [refs |-> newRefs,
               delta |-> <<pitchDelta, yawDelta, rollDelta>>,
               rot |-> CamApplyRotation(rotationAxis, pitchDelta, yawDelta, rollDelta)]
        ELSE [refs |-> newRefs, delta |-> NoDelta, rot |-> NoRotation]
  ELSE
    [refs |-> [lastPitchRef |-> Null, lastYawRef |-> Null, lastRollRef |-> Null],
     delta |-> NoDelta, rot |-> NoRotation]

\* Variant of ObjRotationAxis that falls back to the next axis beyond its
\* dead zone when the axis with the largest delta fails its margins.
ObjRotationAxis_fallback(pitchDelta, yawDelta, rollDelta) ==
  LET absPitch == Abs(pitchDelta)
      absYaw == Abs(yawDelta)
      absRoll == Abs(rollDelta)
      maxDelta == Max3(absPitch, absYaw, absRoll)
  IN  IF absPitch = maxDelta /\ absPitch > pitchDeadZone
         /\ absPitch * 10 > absYaw * 13 /\ absPitch * 10 > absRoll * 13
      THEN "pitch"
      ELSE IF absYaw = maxDelta /\ absYaw > yawDeadZone
              /\ absYaw * 10 > absPitch * 14 /\ absYaw * 10 > absRoll * 18
      THEN "yaw"
      ELSE IF absRoll = maxDelta /\ absRoll > rollDeadZone
              /\ absRoll * 10 > absPitch * 14 /\ absRoll * 10 > absYaw * 16
      THEN "roll"
      ELSE IF absPitch > pitchDeadZone THEN "pitch"
      ELSE IF absYaw > yawDeadZone THEN "yaw"
      ELSE IF absRoll > rollDeadZone THEN "roll"
      ELSE "none"

\* GestureObjectController: choice of the rotation axis from the deltas.
ObjRotationAxis(pitchDelta, yawDelta, rollDelta) ==
  LET absPitch == Abs(pitchDelta)
      absYaw == Abs(yawDelta)
      absRoll == Abs(rollDelta)
      maxDelta == Max3(absPitch, absYaw, absRoll)
  IN  IF absPitch = maxDelta /\ absPitch > pitchDeadZone THEN
        IF absPitch * 10 > absYaw * 13 /\ absPitch * 10 > absRoll * 13
        THEN "pitch" ELSE "none"
      ELSE IF absYaw = maxDelta /\ absYaw > yawDeadZone THEN
        IF absYaw * 10 > absPitch * 14 /\ absYaw * 10 > absRoll * 18
        THEN "yaw" ELSE "none"
      ELSE IF absRoll = maxDelta /\ absRoll > rollDeadZone THEN
        IF absRoll * 10 > absPitch * 14 /\ absRoll * 10 > absYaw * 16
        THEN "roll" ELSE "none"
      ELSE "none"

\* Variant of ObjApplyRotation that does not clamp the delta.
ObjApplyRotation_noClamp(rotationAxis, pitchDelta, yawDelta, rollDelta) ==
  IF rotationAxis = "pitch" THEN [NoRotation EXCEPT !.z = pitchDelta * 12]
  ELSE IF rotationAxis = "yaw" THEN [NoRotation EXCEPT !.y = yawDelta * 12]
  ELSE IF rotationAxis = "roll" THEN [NoRotation EXCEPT !.x = rollDelta * 12]
  ELSE NoRotation

\* GestureObjectController: rotateOnWorldAxis for the chosen axis, angles in
\* tenths of a fixed-point unit (the clamped delta times 1.2).
ObjApplyRotation(rotationAxis, pitchDelta, yawDelta, rollDelta) ==
  IF rotationAxis = "pitch" THEN
    [NoRotation EXCEPT !.z = clamp(pitchDelta, Deg(-15), Deg(15)) * 12]
  ELSE IF rotationAxis = "yaw" THEN
    [NoRotation EXCEPT !.y = clamp(yawDelta, Deg(-15), Deg(15)) * 12]
  ELSE IF rotationAxis = "roll" THEN
    [NoRotation EXCEPT !.x = clamp(rollDelta, Deg(-15), Deg(15)) * 12]
  ELSE NoRotation

\* One useFrame callback of GestureObjectController on props p and refs r.
\* Translation and scaling of the object do not touch the refs or the
\* rotation and are left out.
ObjectUseFrame(p, r) ==
  IF p.rotationEnabled /\ p.isFistClosed
     /\ ~IsNull(p.pitch) /\ ~IsNull(p.yaw) /\ ~IsNull(p.roll) THEN
    LET newRefs == [lastPitchRef |-> p.pitch, lastYawRef |-> p.yaw,
                    lastRollRef |-> p.roll]
    IN  IF ~IsNull(r.lastPitchRef) /\ ~IsNull(r.lastYawRef) /\ ~IsNull(r.lastRollRef) THEN
          LET pitchDelta == Val(p.pitch) - Val(r.lastPitchRef)
              yawDelta == Val(p.yaw) - Val(r.lastYawRef)
              rollDelta == Val(p.roll) - Val(r.lastRollRef)
              rotationAxis == ObjRotationAxis(pitchDelta, yawDelta, rollDelta)
          IN  [refs |-> newRefs,
               delta |-> <<pitchDelta, yawDelta, rollDelta>>,
               rot |-> ObjApplyRotation(rotationAxis, pitchDelta, yawDelta, rollDelta)]
        ELSE [refs |-> newRefs, delta |-> NoDelta, rot |-> NoRotation]
  ELSE
    [refs |-> [lastPitchRef |-> Null, lastYawRef |-> Null, lastRollRef |-> Null],
     delta |-> NoDelta, rot |-> NoRotation]

\* ---------------------------------------------------------------- state
VARIABLES
  now,                    \* Date.now(), ms since Sandbox3D was mounted
  gestureEnabled,         \* Sandbox3D state
  selected,               \* Sandbox3D state: an object is selected
  gestureRotationEnabled, \* Sandbox3D state
  resetCamera,            \* Sandbox3D state
  currentGesture,         \* raw detector output held by Sandbox3D
  gesturePitch,
  gestureYaw,
  gestureRoll,
  gestureFistClosed,
  lastGestureRef,         \* useSmoothedGesture refs and state
  lastValidGestureRef,
  lastValidTimeRef,
  unknownCountRef,
  sameGestureCountRef,
  smoothedGesture,
  smoothedPitch,
  smoothedYaw,
  smoothedRoll,
  camRefs,                \* lastPitchRef, lastYawRef, lastRollRef of the camera controller
  objRefs,                \* the same refs of the object controller
  pre,                    \* history: smoother inputs before the latest detector frame
  seen,                   \* history: props of the previous controller frame since its mount
  frame,                  \* history: the controller frame just executed
  hand,                   \* history: the landmark list of the latest video frame
  threw,                  \* processFrame threw: the animation-frame loop has ended
  angle,                  \* argument of the latest call of normalizeAngle
  normalized,             \* its result
  renormalized            \* normalizeAngle applied to the result

rawVars == <<currentGesture, gesturePitch, gestureYaw, gestureRoll, gestureFistClosed>>
hookVars == <<lastGestureRef, lastValidGestureRef, lastValidTimeRef, unknownCountRef,
              sameGestureCountRef, smoothedGesture, smoothedPitch, smoothedYaw,
              smoothedRoll>>
uiVars == <<gestureEnabled, selected, gestureRotationEnabled, resetCamera>>
fnVars == <<angle, normalized, renormalized>>
vars == <<now, rawVars, hookVars, uiVars, camRefs, objRefs, pre, seen, frame, hand,
          threw, fnVars>>

NullRefs == [lastPitchRef |-> Null, lastYawRef |-> Null, lastRollRef |-> Null]
NoFrame == [ctrl |-> "none"]
NoPre == [kind |-> "mount", gesture |-> "UNKNOWN", time |-> 0,
          lastValid |-> "UNKNOWN", smoothed |-> "UNKNOWN",
          yaw |-> Null, smoothedYaw |-> Null,
          pitch |-> Null, smoothedPitch |-> Null]

\* Video-frame intervals (ms) and the poses the hand goes through.
FrameIntervals == {50, 100}
OpenHand == Pose(95, 95, 95, 95, 20, 90, 0, 0, 0)
PinchFist == Pose(-20, -20, -20, -20, 3, 90, 0, 0, 0)
PinchOpen == Pose(-20, 95, 95, -20, 3, 90, 0, 0, 0)
PointUp == Pose(95, -20, -20, -20, 20, 90, 0, 0, 0)
PointRight == Pose(95, -20, -20, -20, 20, 0, 0, 0, 0)
TwoFingers == Pose(95, 95, -20, -20, 20, 90, 0, 0, 0)
Relaxed == Pose(-20, 95, 95, -20, 20, 90, 0, 0, 0)
\* A fist whose pinky MCP landmark is NaN: the cosine of the pinky is NaN and
\* the finger counts as folded.
NaNFist == [FistPose(0, 0, 0) EXCEPT !.pinkyMcpNaN = TRUE]
FistPoses ==
  { NaNFist, FistPose(0, 0, 0), FistPose(0, 3, 0), FistPose(0, 6, 0), FistPose(0, 40, 0),
    FistPose(0, 178, 0), FistPose(0, 181, 0), FistPose(20, 0, 0) }
HandPoses ==
  {OpenHand, PinchFist, PinchOpen, PointUp, PointRight, TwoFingers, Relaxed}
    \cup FistPoses
RotationPoses ==
  { OpenHand, PointUp,
    FistPose(0, 0, 0), FistPose(0, 40, 0), FistPose(0, 178, 0), FistPose(0, 181, 0) }

\* Poses for the classifier: every finger state at pinch distances around
\* the threshold 0.05, and an index finger pointing in directions around the
\* boundaries of detectDirection.
PinchDistances == {0, 4, 5, 20}
DirectionAngles ==
  {-180, -179, -136, -135, -134, -90, -46, -45, -44, 0,
   44, 45, 46, 90, 134, 135, 136, 179, 180}
\* Landmark lists that lack the last landmark (the pinky tip).
ShortPoses ==
  { [Pose(95, 95, 95, 95, 20, 90, 0, 0, 0) EXCEPT !.count = 20],
    [FistPose(0, 0, 0) EXCEPT !.count = 20] }
ClassifierPoses ==
  { Pose(c[1], c[2], c[3], c[4], d, 90, 0, 0, 0) :
      c \in [1..4 -> {95, -20}], d \in PinchDistances }
    \cup { Pose(95, -20, -20, -20, 20, a, 0, 0, 0) : a \in DirectionAngles }
    \cup ShortPoses

\* Arguments of normalizeAngle: every whole degree up to MaxAngle.
AngleInputs == { Deg(d) : d \in (-MaxAngle)..MaxAngle }

\* Raw orientations handed to useSmoothedGesture when it is driven directly:
\* <<pitch, yaw, roll>>, all null or all numbers, finite or not.
RawSamples ==
  { <<Null, Null, Null>>,
    <<Some(0), Some(0), Some(0)>>, <<Some(0), Some(Deg(40)), Some(0)>>,
    <<Some(0), NaN, Some(0)>>, <<Some(0), Infinity, Some(0)>>,
    <<Some(0), NegInfinity, Some(0)>>, <<NaN, NaN, NaN>>,
    <<Infinity, Some(Deg(40)), NaN>> }

\* Smoothed outputs handed to the controllers when they are driven directly:
\* orientation samples in tenths of a degree, <<pitch, yaw, roll>>.
Sample(p, y, r) == <<Some((p * Scale) \div 10), Some((y * Scale) \div 10),
                     Some((r * Scale) \div 10)>>
PropGestures == {"UNKNOWN", "UP", "ZOOM IN"}
PropSamples ==
  { <<Null, Null, Null>>, <<Null, Some(0), Some(0)>>,
    Sample(0, 0, 0), Sample(70, 70, 70),
    Sample(91, 70, 0), Sample(50, 70, 0), Sample(0, 90, 50), Sample(0, 50, 80),
    Sample(0, 35, 0),
    Sample(400, 0, 0), Sample(0, -400, 0), Sample(0, 0, 400) }

\* State after Sandbox3D is mounted: the mount run of the gesture effect has
\* counted one UNKNOWN; gesture control is off and nothing is selected.
Init ==
  /\ now = 0
  /\ gestureEnabled = FALSE
  /\ selected = FALSE
  /\ gestureRotationEnabled = TRUE
  /\ resetCamera = FALSE
  /\ currentGesture = "UNKNOWN"
  /\ gesturePitch = Null
  /\ gestureYaw = Null
  /\ gestureRoll = Null
  /\ gestureFistClosed = FALSE
  /\ lastGestureRef = "UNKNOWN"
  /\ lastValidGestureRef = "UNKNOWN"
  /\ lastValidTimeRef = 0
  /\ unknownCountRef = 1
  /\ sameGestureCountRef = 0
  /\ smoothedGesture = "UNKNOWN"
  /\ smoothedPitch = Null
  /\ smoothedYaw = Null
  /\ smoothedRoll = Null
  /\ camRefs = NullRefs
  /\ objRefs = NullRefs
  /\ pre = NoPre
  /\ seen = Null
  /\ frame = NoFrame
  /\ hand = <<>>
  /\ threw = FALSE
  /\ angle = Null
  /\ normalized = Null
  /\ renormalized = Null

\* The refs and state of the gesture effect, as one record.
HookGesture ==
  [lastGestureRef |-> lastGestureRef,
   lastValidGestureRef |-> lastValidGestureRef,
   lastValidTimeRef |-> lastValidTimeRef,
   unknownCountRef |-> unknownCountRef,
   sameGestureCountRef |-> sameGestureCountRef,
   smoothedGesture |-> smoothedGesture]

\* The smoother inputs and outputs of the current state, for the history.
PreNow(kind) ==
  [kind |-> kind, gesture |-> currentGesture, time |-> now,
   lastValid |-> lastValidGestureRef, smoothed |-> smoothedGesture,
   yaw |-> gestureYaw, smoothedYaw |-> smoothedYaw,
   pitch |-> gesturePitch, smoothedPitch |-> smoothedPitch]

\* The detector state d reaches Sandbox3D at time t; useSmoothedGesture
\* re-renders and runs the effects whose dependency changed.  The pitch
\* effect is registered twice; both runs close over the same render.
Propagate(kind, d, t) ==
  LET s == IF d.gesture # currentGesture
           THEN gestureEffect(d.gesture, t, HookGesture) ELSE HookGesture
  IN  /\ s.sameGestureCountRef <= MaxSameCount
      /\ d.pitch # gesturePitch => ExactStep(d.pitch, smoothedPitch)
      /\ d.yaw # gestureYaw => ExactStep(d.yaw, smoothedYaw)
      /\ d.roll # gestureRoll => ExactStep(d.roll, smoothedRoll)
      /\ currentGesture' = d.gesture
      /\ gesturePitch' = d.pitch
      /\ gestureYaw' = d.yaw
      /\ gestureRoll' = d.roll
      /\ gestureFistClosed' = d.fist
      /\ lastGestureRef' = s.lastGestureRef
      /\ lastValidGestureRef' = s.lastValidGestureRef
      /\ lastValidTimeRef' = s.lastValidTimeRef
      /\ unknownCountRef' = s.unknownCountRef
      /\ sameGestureCountRef' = s.sameGestureCountRef
      /\ smoothedGesture' = s.smoothedGesture
      /\ smoothedPitch' = IF d.pitch # gesturePitch
                          THEN pitchEffects(d.pitch, smoothedPitch)
                          ELSE smoothedPitch
      /\ smoothedYaw' = IF d.yaw # gestureYaw
                        THEN orientationEffect(d.yaw, smoothedYaw) ELSE smoothedYaw
      /\ smoothedRoll' = IF d.roll # gestureRoll
                         THEN orientationEffect(d.roll, smoothedRoll) ELSE smoothedRoll
      /\ pre' = PreNow(kind)

\* The detector processes a new video frame showing one of the given poses
\* (or no hand), dt ms after the previous one.  processFrame has no handler
\* for exceptions: when drawHandLandmarks throws, no state is set and the
\* next animation frame is not requested.
ProcessVideoFrame(poses) ==
  /\ gestureEnabled
  /\ ~threw
  /\ \E dt \in FrameIntervals, results \in {<<>>} \cup {<<h>> : h \in poses} :
       /\ now + dt <= MaxTime
       /\ now' = now + dt
       /\ hand' = results
       /\ IF (IF Len(results) > 0
              THEN drawHandLandmarks(results[1]) = "TypeError" ELSE FALSE)
          THEN /\ threw' = TRUE
               /\ pre' = PreNow("frame")
               /\ UNCHANGED <<rawVars, hookVars>>
          ELSE /\ threw' = FALSE
               /\ Propagate("frame", processFrame(results), now + dt)
  /\ frame' = NoFrame
  /\ UNCHANGED <<uiVars, camRefs, objRefs, seen, fnVars>>

DetectorFrame == ProcessVideoFrame(HandPoses)

\* The same step with the hand restricted to the poses of a fist rotation.
RotationFrame == ProcessVideoFrame(RotationPoses)

\* The same step with the hand in any of the classifier poses.
ClassifierFrame == ProcessVideoFrame(ClassifierPoses)

\* A call of normalizeAngle, and a second call on its result.
NormalizeAngleCall ==
  /\ \E a \in AngleInputs :
       /\ angle' = Some(a)
       /\ normalized' = Some(normalizeAngle(a))
       /\ renormalized' = Some(normalizeAngle(normalizeAngle(a)))
  /\ UNCHANGED <<now, rawVars, hookVars, uiVars, camRefs, objRefs, pre, seen, frame, hand,
                 threw>>

\* Sandbox3D renders with new raw values for useSmoothedGesture: any gesture,
\* any fist flag and any raw orientation, dt ms after the previous ones.
RawProps ==
  /\ gestureEnabled
  /\ \E dt \in FrameIntervals, g \in PropGestures, f \in BOOLEAN, o \in RawSamples :
       /\ now + dt <= MaxTime
       /\ now' = now + dt
       /\ Propagate("frame", [gesture |-> g, pitch |-> o[1], yaw |-> o[2],
                              roll |-> o[3], fist |-> f], now + dt)
  /\ hand' = <<>>
  /\ frame' = NoFrame
  /\ UNCHANGED <<uiVars, camRefs, objRefs, seen, threw, fnVars>>

\* Sandbox3D renders with new outputs of useSmoothedGesture: any gesture,
\* any fist flag and any orientation sample (or none).
RenderProps ==
  /\ gestureEnabled
  /\ \E g \in PropGestures, f \in BOOLEAN, o \in PropSamples :
       /\ smoothedGesture' = g
       /\ gestureFistClosed' = f
       /\ smoothedPitch' = o[1]
       /\ smoothedYaw' = o[2]
       /\ smoothedRoll' = o[3]
  /\ frame' = NoFrame
  /\ UNCHANGED <<hand, threw, fnVars, now, uiVars, currentGesture, gesturePitch, gestureYaw, gestureRoll,
                 lastGestureRef, lastValidGestureRef, lastValidTimeRef,
                 unknownCountRef, sameGestureCountRef, camRefs, objRefs, pre, seen>>

\* The props both controllers receive from Sandbox3D.
ControllerProps ==
  [gesture |-> smoothedGesture, pitch |-> smoothedPitch, yaw |-> smoothedYaw,
   roll |-> smoothedRoll, isFistClosed |-> gestureFistClosed,
   rotationEnabled |-> gestureRotationEnabled, resetCamera |-> resetCamera]

\* The inputs of a controller frame the history keeps.
FrameInputs ==
  [isFistClosed |-> gestureFistClosed, pitch |-> smoothedPitch,
   yaw |-> smoothedYaw, roll |-> smoothedRoll]

\* A render frame with the camera controller mounted.
CameraFrame ==
  /\ gestureEnabled /\ ~selected
  /\ LET r == CameraUseFrame(ControllerProps, camRefs)
     IN  /\ camRefs' = r.refs
         /\ frame' = [ctrl |-> "camera", props |-> ControllerProps, prev |-> seen,
                      before |-> camRefs, delta |-> r.delta, rot |-> r.rot]
  /\ seen' = Some(FrameInputs)
  /\ UNCHANGED <<hand, threw, fnVars, now, rawVars, hookVars, uiVars, objRefs, pre>>

\* A render frame with the object controller mounted.
ObjectFrame ==
  /\ gestureEnabled /\ selected
  /\ LET r == ObjectUseFrame(ControllerProps, objRefs)
     IN  /\ objRefs' = r.refs
         /\ frame' = [ctrl |-> "object", props |-> ControllerProps, prev |-> seen,
                      before |-> objRefs, delta |-> r.delta, rot |-> r.rot]
  /\ seen' = Some(FrameInputs)
  /\ UNCHANGED <<hand, threw, fnVars, now, rawVars, hookVars, uiVars, camRefs, pre>>

\* Selecting or deselecting an object swaps the mounted controller; the
\* controller that mounts starts with null refs.
SetSelected ==
  /\ selected' = ~selected
  /\ camRefs' = NullRefs
  /\ objRefs' = NullRefs
  /\ seen' = Null
  /\ frame' = NoFrame
  /\ UNCHANGED <<hand, threw, fnVars, now, rawVars, hookVars, gestureEnabled, gestureRotationEnabled,
                 resetCamera, pre>>

SetGestureRotationEnabled ==
  /\ gestureRotationEnabled' = ~gestureRotationEnabled
  /\ frame' = NoFrame
  /\ UNCHANGED <<hand, threw, fnVars, now, rawVars, hookVars, gestureEnabled, selected, resetCamera,
                 camRefs, objRefs, pre, seen>>

\* onResetCamera sets the flag; its 100 ms timer clears it.
ResetCameraOn ==
  /\ ~resetCamera
  /\ resetCamera' = TRUE
  /\ frame' = NoFrame
  /\ UNCHANGED <<hand, threw, fnVars, now, rawVars, hookVars, gestureEnabled, selected,
                 gestureRotationEnabled, camRefs, objRefs, pre, seen>>

ResetCameraOff ==
  /\ resetCamera
  /\ resetCamera' = FALSE
  /\ frame' = NoFrame
  /\ UNCHANGED <<hand, threw, fnVars, now, rawVars, hookVars, gestureEnabled, selected,
                 gestureRotationEnabled, camRefs, objRefs, pre, seen>>

\* Gesture control is switched on: the detector and a controller mount, and
\* the detector reports its initial state to Sandbox3D.
EnableGesture ==
  /\ ~gestureEnabled
  /\ gestureEnabled' = TRUE
  /\ Propagate("mount", processFrame(<<>>), now)
  /\ camRefs' = NullRefs
  /\ objRefs' = NullRefs
  /\ seen' = Null
  /\ frame' = NoFrame
  /\ hand' = <<>>
  /\ threw' = FALSE
  /\ UNCHANGED <<fnVars, now, selected, gestureRotationEnabled, resetCamera>>

\* Gesture control is switched off: the detector and the controller unmount;
\* Sandbox3D keeps the last raw values.
DisableGesture ==
  /\ gestureEnabled
  /\ gestureEnabled' = FALSE
  /\ camRefs' = NullRefs
  /\ objRefs' = NullRefs
  /\ seen' = Null
  /\ frame' = NoFrame
  /\ UNCHANGED <<hand, threw, fnVars, now, rawVars, hookVars, selected, gestureRotationEnabled,
                 resetCamera, pre>>

\* The whole pipeline, the hand going through a fist rotation.
Next ==
  \/ RotationFrame
  \/ CameraFrame
  \/ ObjectFrame
  \/ SetSelected
  \/ SetGestureRotationEnabled
  \/ ResetCameraOn
  \/ ResetCameraOff
  \/ EnableGesture
  \/ DisableGesture

Spec == Init /\ [][Next]_vars

\* Detector and smoother over every pose.
NextSmoother ==
  \/ DetectorFrame
  \/ EnableGesture
  \/ DisableGesture

SpecSmoother == Init /\ [][NextSmoother]_vars

\* Detector and smoother over the classifier poses.
NextDetector ==
  \/ ClassifierFrame
  \/ EnableGesture
  \/ DisableGesture

SpecDetector == Init /\ [][NextDetector]_vars

\* normalizeAngle on its own.
NextAngles == NormalizeAngleCall

SpecAngles == Init /\ [][NextAngles]_vars

\* useSmoothedGesture driven by arbitrary raw values.
NextHook ==
  \/ RawProps
  \/ EnableGesture
  \/ DisableGesture

SpecHook == Init /\ [][NextHook]_vars

\* The controllers driven by arbitrary props.
NextCtrl ==
  \/ RenderProps
  \/ CameraFrame
  \/ ObjectFrame
  \/ SetSelected
  \/ SetGestureRotationEnabled
  \/ ResetCameraOn
  \/ ResetCameraOff
  \/ EnableGesture

SpecCtrl == Init /\ [][NextCtrl]_vars

\* =============================================================== claims
\* ---------------------------------------------------------------- C1
\* C1: once a directional gesture was accepted and the raw gesture is
\* Unknown, the smoothed gesture is no longer that direction when 100 ms or
\* more have passed since the acceptance; it does not persist indefinitely.
C1_GraceWindowExpires ==
  (currentGesture = "UNKNOWN" /\ now - lastValidTimeRef >= 100)
    => smoothedGesture \notin Directions

\* ---------------------------------------------------------------- C2
\* C2: a raw Unknown frame that arrives less than 100 ms after a frame whose
\* raw gesture was a direction leaves the smoothed gesture at that direction,
\* however long the direction had been held.
C2_UnknownMaskedWithinGrace ==
  (pre.kind = "frame" /\ currentGesture = "UNKNOWN"
     /\ pre.gesture \in Directions /\ now - pre.time < 100)
    => smoothedGesture = pre.gesture

\* ---------------------------------------------------------------- C3
\* C3: when the raw gesture becomes Unknown while the last accepted gesture
\* is ZoomIn or ZoomOut, the smoothed gesture and the last accepted gesture
\* are Unknown after that frame, however little time has elapsed.
C3_ZoomClearsImmediately ==
  (currentGesture = "UNKNOWN" /\ pre.lastValid \in Zooms)
    => (smoothedGesture = "UNKNOWN" /\ lastValidGestureRef = "UNKNOWN")

\* An Unknown frame 50 ms after a zoom was accepted has cleared it.
C3_Witness ==
  /\ pre.kind = "frame"
  /\ currentGesture = "UNKNOWN"
  /\ pre.lastValid \in Zooms
  /\ pre.smoothed \in Zooms
  /\ now - lastValidTimeRef < 100
  /\ smoothedGesture = "UNKNOWN"

\* ------------------------------------------------- controller frames
\* The action just taken was a controller frame.
HasFrame == frame.ctrl # "none"
\* ... and it computed deltas against its refs.
HasDelta == IF HasFrame THEN frame.delta # NoDelta ELSE FALSE
\* Inputs of a frame on which the fist is closed with a full orientation.
Hold(i) == i.isFistClosed /\ ~IsNull(i.pitch) /\ ~IsNull(i.yaw) /\ ~IsNull(i.roll)
\* Axes about which the frame rotated.
RotatedAxes == {a \in {"z", "y", "x"} : frame.rot[a] # 0}
\* Principal value in (-180, 180] degrees of an angle in fixed-point units.
WrapUnits(u) == ((u + Deg(180) - 1) % Deg(360)) - (Deg(180) - 1)

\* ---------------------------------------------------------------- C4
\* C4: a controller frame that directly follows a frame of the same
\* controller on which the fist was open or the orientation was null applies
\* no rotation, also when the fist is closed again (camera and object).
C4_NoRotationAfterGap ==
  (HasFrame /\ ~IsNull(frame.prev)) =>
    ((~Hold(Val(frame.prev)) /\ frame.props.isFistClosed)
       => frame.rot = NoRotation)

\* ---------------------------------------------------------------- C5
\* C5: a controller frame rotates about at most one axis, also when two or
\* three deltas tie in absolute value.
C5_AtMostOneAxis == HasFrame => Cardinality(RotatedAxes) <= 1

\* A frame whose three deltas tie above every dead zone.
C5_Witness ==
  /\ HasDelta
  /\ Abs(frame.delta[1]) = Abs(frame.delta[2])
  /\ Abs(frame.delta[2]) = Abs(frame.delta[3])
  /\ Abs(frame.delta[2]) > yawDeadZone

\* ---------------------------------------------------------------- C6
\* The largest delta of the frame and the candidates it makes.
AbsP == Abs(frame.delta[1])
AbsY == Abs(frame.delta[2])
AbsR == Abs(frame.delta[3])
MaxAbs == Max3(AbsP, AbsY, AbsR)
CandidatePitch == AbsP = MaxAbs /\ AbsP > pitchDeadZone
CandidateYaw == AbsY = MaxAbs /\ AbsY > yawDeadZone
CandidateRoll == AbsR = MaxAbs /\ AbsR > rollDeadZone

\* C6 as claimed: a candidate axis is confirmed exactly when it is at least
\* (>=) its margin times each competing delta.
C6_InclusiveMargins ==
  HasDelta =>
    /\ CandidatePitch =>
         (frame.rot.z # 0 <=> (AbsP * 10 >= AbsY * 13 /\ AbsP * 10 >= AbsR * 13))
    /\ CandidateYaw =>
         (frame.rot.y # 0 <=> (AbsY * 10 >= AbsP * 14 /\ AbsY * 10 >= AbsR * 18))
    /\ CandidateRoll =>
         (frame.rot.x # 0 <=> (AbsR * 10 >= AbsP * 14 /\ AbsR * 10 >= AbsY * 16))

\* C6 amended: a candidate axis is confirmed exactly when it is strictly
\* greater than its margin times each competing delta.
C6_StrictMargins ==
  HasDelta =>
    /\ CandidatePitch =>
         (frame.rot.z # 0 <=> (AbsP * 10 > AbsY * 13 /\ AbsP * 10 > AbsR * 13))
    /\ CandidateYaw =>
         (frame.rot.y # 0 <=> (AbsY * 10 > AbsP * 14 /\ AbsY * 10 > AbsR * 18))
    /\ CandidateRoll =>
         (frame.rot.x # 0 <=> (AbsR * 10 > AbsP * 14 /\ AbsR * 10 > AbsY * 16))

\* A pitch candidate exactly 1.3 times the yaw delta, not confirmed.
C6_Witness ==
  /\ HasDelta
  /\ CandidatePitch
  /\ AbsY > 0
  /\ AbsP * 10 = AbsY * 13
  /\ frame.rot = NoRotation

\* ---------------------------------------------------------------- C7
\* C7 as claimed: the rotation applied by a frame is at most 15 degrees.
C7_AppliedAtMost15 ==
  HasFrame => \A a \in {"z", "y", "x"} : Abs(frame.rot[a]) <= 150 * Scale

\* C7 amended: the delta is clamped to 15 degrees before the gain of the
\* controller, so the camera orbits by at most 13.5 degrees (0.9 x 15) and
\* the object rotates by at most 18 degrees (1.2 x 15).
C7_ClampedBeforeGain ==
  HasFrame =>
    \A a \in {"z", "y", "x"} :
      Abs(frame.rot[a]) <= IF frame.ctrl = "camera" THEN 135 * Scale ELSE 180 * Scale

\* An object frame with a pitch delta beyond 15 degrees rotates by 18 degrees.
C7_Witness ==
  /\ HasDelta
  /\ frame.ctrl = "object"
  /\ Abs(frame.delta[1]) > Deg(15)
  /\ Abs(frame.rot.z) = 180 * Scale

\* ---------------------------------------------------------------- C8
\* C8: when the yaw of the fist turns by a small angle (within the yaw dead
\* zone) across the +/-180 boundary between two detector frames, pitch and
\* roll unchanged, the controller frame that compares the two samples
\* computes a yaw delta no larger than that angle and applies no rotation.
C8_NoWrapAroundJump ==
  (HasDelta /\ ~IsNull(pre.yaw) /\ ~IsNull(gestureYaw))
    => ((/\ pre.smoothedYaw = pre.yaw
         /\ frame.before.lastYawRef = pre.smoothedYaw
         /\ frame.delta[1] = 0
         /\ frame.delta[3] = 0
         /\ Abs(WrapUnits(Val(gestureYaw) - Val(pre.yaw))) <= yawDeadZone)
        => (/\ frame.rot = NoRotation
            /\ Abs(frame.delta[2]) <= Abs(WrapUnits(Val(gestureYaw) - Val(pre.yaw)))))

C10_DeadZones ==
  HasFrame =>
    IF frame.delta = NoDelta THEN frame.rot = NoRotation
    ELSE /\ frame.rot.z # 0 => AbsP > pitchDeadZone
         /\ frame.rot.y # 0 => AbsY > yawDeadZone
         /\ frame.rot.x # 0 => AbsR > rollDeadZone
         /\ (AbsP <= pitchDeadZone /\ AbsY <= yawDeadZone /\ AbsR <= rollDeadZone)
              => frame.rot = NoRotation

\* A yaw delta exactly equal to the yaw dead zone, alone, is not rotated.
C10_Witness ==
  /\ HasDelta
  /\ AbsY = yawDeadZone
  /\ AbsP = 0
  /\ AbsR = 0
  /\ frame.rot = NoRotation

\* --------------------------------------------------------------- C11
\* The dominance margins of the three axes on the deltas of the frame.
PitchMargin == AbsP * 10 > AbsY * 13 /\ AbsP * 10 > AbsR * 13
YawMargin == AbsY * 10 > AbsP * 14 /\ AbsY * 10 > AbsR * 18
RollMargin == AbsR * 10 > AbsP * 14 /\ AbsR * 10 > AbsY * 16

\* C11: when an axis with the largest absolute delta fails its dominance
\* margin, the frame rotates about no axis; there is no fallback to a smaller
\* axis, even one beyond its own dead zone.
C11_NoFallback ==
  HasDelta =>
    ((\/ AbsP = MaxAbs /\ ~PitchMargin
      \/ AbsY = MaxAbs /\ ~YawMargin
      \/ AbsR = MaxAbs /\ ~RollMargin)
       => frame.rot = NoRotation)

\* Yaw is strictly the largest delta and fails its margin against pitch,
\* pitch is beyond its own dead zone, and nothing is rotated.
C11_Witness ==
  /\ HasDelta
  /\ AbsY = MaxAbs /\ AbsY > AbsP /\ AbsY > AbsR
  /\ AbsY > yawDeadZone
  /\ ~YawMargin
  /\ AbsP > pitchDeadZone
  /\ frame.rot = NoRotation

\* --------------------------------------------------------------- C12
\* C12: after a detector frame whose raw gesture is not Unknown, the
\* smoothed gesture and the last accepted gesture equal that raw gesture,
\* whether or not the previous raw gesture was the same.
C12_EmittedSameFrame ==
  (pre.kind = "frame" /\ currentGesture # "UNKNOWN")
    => (smoothedGesture = currentGesture /\ lastValidGestureRef = currentGesture)

\* A frame that changes the raw gesture from one direction to another has
\* emitted the new direction.
C12_Witness ==
  /\ pre.kind = "frame"
  /\ pre.gesture \in Directions
  /\ currentGesture \in Directions
  /\ currentGesture # pre.gesture
  /\ pre.smoothed = pre.gesture
  /\ smoothedGesture = currentGesture
  /\ lastValidGestureRef = currentGesture

\* ------------------------------------------------------ detector frames
\* The latest video frame showed a hand and was processed to the end.
HasHand == hand # <<>> /\ ~threw
\* Features of that hand.
HandFingers == fingersUp(hand[1])
HandPinch == hand[1].pinch

\* --------------------------------------------------------------- C13
\* C13 as claimed: a frame whose hand has a pinch distance below 0.05 and
\* not all four fingers extended makes the detector emit ZoomIn, in each of
\* the 15 finger states.
C13_PinchEmitsZoomIn ==
  HasHand =>
    ((HandPinch < 5 /\ HandFingers # <<1, 1, 1, 1>>)
       => currentGesture = "ZOOM IN")

\* C13 amended: such a frame makes the detector emit ZoomIn in each of the
\* 14 finger states other than index and middle extended with ring and
\* pinky folded; in that state (two-finger pointing) it emits Unknown.
C13_PinchEmitsZoomInUnlessPointing ==
  HasHand =>
    ((HandPinch < 5 /\ HandFingers # <<1, 1, 1, 1>>)
       => IF HandFingers = <<1, 1, 0, 0>> THEN currentGesture = "UNKNOWN"
          ELSE currentGesture = "ZOOM IN")

\* A pinch with only the index finger extended emits ZoomIn, not a direction.
C13_Witness ==
  /\ HasHand
  /\ HandPinch < 5
  /\ HandFingers = <<1, 0, 0, 0>>
  /\ currentGesture = "ZOOM IN"
  /\ smoothedGesture = "ZOOM IN"

\* --------------------------------------------------------------- C14
\* C14: a frame whose hand has all four tracked fingers extended is
\* classified as ZoomOut at every pinch distance, also below 0.05.
C14_OpenHandZoomsOut ==
  HasHand =>
    (HandFingers = <<1, 1, 1, 1>>
       => (detectGesture(hand[1]) = "ZOOM OUT" /\ currentGesture = "ZOOM OUT"))

\* An open hand whose thumb touches the index tip has emitted ZoomOut.
C14_Witness ==
  /\ HasHand
  /\ HandFingers = <<1, 1, 1, 1>>
  /\ HandPinch < 5
  /\ currentGesture = "ZOOM OUT"

\* --------------------------------------------------------------- C15
\* The hand points with the index finger alone, without a pinch, so that the
\* emitted gesture is the value of detectDirection.
HandPointsIndex == HandFingers = <<1, 0, 0, 0>> /\ HandPinch >= 5
HandDir == hand[1].dir

\* C15: for every angle in [-180, 180] of the wrist-to-index-tip vector the
\* direction is Up exactly on [45, 135], Down exactly on [-135, -45], Right
\* exactly on (-45, 45) and Left exactly on the rest, so that every angle,
\* the boundaries 45, 135, -45, -135 included, has exactly one direction.
C15_DirectionsPartition ==
  HasHand =>
    (HandPointsIndex =>
       /\ detectDirection(hand[1]) = currentGesture
       /\ currentGesture \in Directions
       /\ currentGesture = "UP" <=> (HandDir >= 45 /\ HandDir <= 135)
       /\ currentGesture = "DOWN" <=> (HandDir >= -135 /\ HandDir <= -45)
       /\ currentGesture = "RIGHT" <=> (HandDir > -45 /\ HandDir < 45)
       /\ currentGesture = "LEFT" <=> (HandDir > 135 \/ HandDir < -135))

\* The boundary angle -45 has been classified as Down.
C15_Witness ==
  /\ HasHand
  /\ HandPointsIndex
  /\ HandDir = -45
  /\ currentGesture = "DOWN"

\* --------------------------------------------------------------- C16
\* C16: the result of normalizeAngle is greater than -180 and at most 180
\* degrees for every finite argument, negative arguments included.
C16_NormalizedInRange ==
  ~IsNull(angle) =>
    (Val(normalized) > Deg(-180) /\ Val(normalized) <= Deg(180))

\* --------------------------------------------------------------- C17
\* C17: normalizeAngle applied to its own result gives that result again,
\* for every finite argument, arguments below -180 included.
C17_NormalizeIdempotent == ~IsNull(angle) => renormalized = normalized

\* An argument below -180 that normalizeAngle changes, and whose result it
\* leaves alone.
C17_Witness ==
  /\ ~IsNull(angle)
  /\ ~IsNull(normalized)
  /\ Val(angle) < Deg(-180)
  /\ normalized # angle
  /\ renormalized = normalized

\* --------------------------------------------------------------- C18
\* C18: at the raw output of the detector and at the output of the smoother,
\* pitch, yaw and roll are all null or all non-null.
C18_OrientationTogether ==
  /\ IsNull(gesturePitch) = IsNull(gestureYaw)
  /\ IsNull(gestureYaw) = IsNull(gestureRoll)
  /\ IsNull(smoothedPitch) = IsNull(smoothedYaw)
  /\ IsNull(smoothedYaw) = IsNull(smoothedRoll)

\* --------------------------------------------------------------- C19
\* A raw value that is a number but not a finite one.
NonFinite(x) == ~IsNull(x) /\ ~isFinite(x)

\* C19: every smoothed value is null or finite; while the raw value of an
\* axis is NaN or infinite its smoothed value is null; and the finite yaw
\* sample that follows a non-finite one is passed through unchanged.
C19_NonFiniteNeverFiltered ==
  /\ \A v \in {smoothedPitch, smoothedYaw, smoothedRoll} : IsNull(v) \/ isFinite(v)
  /\ NonFinite(gesturePitch) => IsNull(smoothedPitch)
  /\ NonFinite(gestureYaw) => IsNull(smoothedYaw)
  /\ NonFinite(gestureRoll) => IsNull(smoothedRoll)
  /\ (pre.kind = "frame" /\ NonFinite(pre.yaw) /\ isFinite(gestureYaw))
       => smoothedYaw = gestureYaw

\* A finite yaw sample that directly follows an infinite one, the smoothed
\* yaw being null in between, is the smoothed yaw.
C19_Witness ==
  /\ pre.kind = "frame"
  /\ pre.yaw = Infinity
  /\ IsNull(pre.smoothedYaw)
  /\ gestureYaw = Some(Deg(40))
  /\ smoothedYaw = Some(Deg(40))

\* --------------------------------------------------------------- C20
\* C20: after every frame whose raw yaw is finite, the smoothed yaw is the
\* raw yaw when the smoothed yaw was null before the frame, and otherwise
\* 0.7 times the raw yaw plus 0.3 times the smoothed yaw before the frame,
\* also when the raw yaw is the same as on the previous frame.
C20_FilterStepEveryFrame ==
  (pre.kind = "frame" /\ isFinite(gestureYaw)) =>
    IF IsNull(pre.smoothedYaw) THEN smoothedYaw = gestureYaw
    ELSE IF isFinite(smoothedYaw)
         THEN Val(smoothedYaw) * 10 = Val(gestureYaw) * 7 + Val(pre.smoothedYaw) * 3
         ELSE FALSE

\* --------------------------------------------------------------- C21
\* C21: while the raw value of an orientation axis is null the smoothed
\* value of that axis is null; a filtered value is not held.
C21_NullResetsFilter ==
  /\ IsNull(gesturePitch) => IsNull(smoothedPitch)
  /\ IsNull(gestureYaw) => IsNull(smoothedYaw)
  /\ IsNull(gestureRoll) => IsNull(smoothedRoll)

\* A frame without orientation directly after a frame with a filtered yaw.
C21_Witness ==
  /\ pre.kind = "frame"
  /\ isFinite(pre.yaw)
  /\ isFinite(pre.smoothedYaw)
  /\ pre.smoothedYaw # pre.yaw
  /\ IsNull(gestureYaw)
  /\ IsNull(smoothedYaw)

\* --------------------------------------------------------------- C22
\* The action just taken was a video frame on which no hand was found (or
\* gesture control was switched off after such a frame).
NoHandFrame == pre.kind = "frame" /\ hand = <<>>

\* C22: after a video frame on which the detector finds no hand the raw
\* outputs are gesture Unknown, pitch, yaw and roll null and fist-closed
\* false, whatever they were before.
C22_NoHandShortCircuits ==
  NoHandFrame =>
    /\ currentGesture = "UNKNOWN"
    /\ IsNull(gesturePitch) /\ IsNull(gestureYaw) /\ IsNull(gestureRoll)
    /\ gestureFistClosed = FALSE

\* The hand disappears directly after a frame with a closed fist and an
\* orientation.
C22_Witness ==
  /\ NoHandFrame
  /\ isFinite(pre.yaw)
  /\ currentGesture = "UNKNOWN"
  /\ IsNull(gestureYaw)
  /\ gestureFistClosed = FALSE

\* --------------------------------------------------------------- C23
\* C23: a video frame whose landmark list has fewer than 21 landmarks is
\* processed without an error, and the fist flag the detector reports
\* afterwards is the one of that list.
C23_ShortPoseHandled ==
  (pre.kind = "frame" /\ hand # <<>>) =>
    (hand[1].count < 21 =>
       (~threw /\ gestureFistClosed = isFistClosedCheck(hand[1])))

\* --------------------------------------------------------------- C24
\* C24: after a frame whose raw gesture is not Unknown and differs from the
\* raw gesture of the frame before it, sameGestureCountRef is 1, also when
\* the frame before was an Unknown that the grace window masked.
C24_CounterResetToOne ==
  (pre.kind = "frame" /\ currentGesture # "UNKNOWN" /\ currentGesture # pre.gesture)
    => sameGestureCountRef = 1

\* --------------------------------------------------------------- C25
\* Some component of the raw orientation is not null.
RawOrientation ==
  ~IsNull(gesturePitch) \/ ~IsNull(gestureYaw) \/ ~IsNull(gestureRoll)

\* C25: the raw orientation is non-null only if fist-closed is true and the
\* raw gesture is Unknown; a frame that shows a recognised gesture,
\* two-finger pointing, an open hand or no hand leaves it null.
C25_OrientationOnlyForFist ==
  /\ RawOrientation => (gestureFistClosed /\ currentGesture = "UNKNOWN")
  /\ (pre.kind = "frame" /\ hand = <<>>) => ~RawOrientation
  /\ HasHand =>
       ((\/ detectPointingGesture(hand[1])
         \/ detectGesture(hand[1]) # "UNKNOWN"
         \/ ~isFistClosedCheck(hand[1]))
          => ~RawOrientation)

\* A pinching fist (ZoomIn) directly after a fist with an orientation has
\* nulled the raw orientation although the fist is still closed.
C25_Witness ==
  /\ HasHand
  /\ pre.kind = "frame"
  /\ isFinite(pre.yaw)
  /\ isFistClosedCheck(hand[1])
  /\ gestureFistClosed
  /\ currentGesture = "ZOOM IN"
  /\ ~RawOrientation

\* --------------------------------------------------------------- C26
\* C26: a camera-controller frame on which the smoothed gesture is a
\* direction or a zoom applies no rotation and leaves lastPitchRef,
\* lastYawRef and lastRollRef null, also when the fist is closed with a full
\* orientation.
C26_GestureClearsCameraRefs ==
  (HasFrame /\ frame.ctrl = "camera") =>
    (frame.props.gesture \in Directions \cup Zooms
       => (frame.rot = NoRotation /\ camRefs = NullRefs))

\* --------------------------------------------------------------- C27
\* C27: when the refs of the camera controller are non-null at the start of
\* a frame they hold the smoothed sample of the controller frame directly
\* before it, also after frames with resetCamera true or rotation disabled.
C27_RefsHoldPreviousFrame ==
  (HasFrame /\ frame.ctrl = "camera") =>
    (frame.before # NullRefs =>
       IF IsNull(frame.prev) THEN FALSE
       ELSE frame.before = [lastPitchRef |-> Val(frame.prev).pitch,
                            lastYawRef |-> Val(frame.prev).yaw,
                            lastRollRef |-> Val(frame.prev).roll])

\* --------------------------------------------------------------- C28
\* The frame saw the same fist flag and smoothed sample as the controller
\* frame directly before it.
SameSampleAsPrevious ==
  IF IsNull(frame.prev) THEN FALSE
  ELSE /\ Val(frame.prev).isFistClosed = frame.props.isFistClosed
       /\ Val(frame.prev).pitch = frame.props.pitch
       /\ Val(frame.prev).yaw = frame.props.yaw
       /\ Val(frame.prev).roll = frame.props.roll

\* C28: however detector updates and controller frames interleave, a
\* controller frame that sees the smoothed sample of the frame before it
\* unchanged applies no rotation: only the first frame that sees a sample
\* can rotate.
C28_RepeatedSampleNoRotation ==
  HasFrame => (SameSampleAsPrevious => frame.rot = NoRotation)

\* --------------------------------------------------------------- C29
\* C29: on a frame that reports fist-closed all four tracked fingers are
\* folded and the gesture is ZoomIn or Unknown, never ZoomOut or a
\* direction; a closed fist whose thumb tip is within 0.05 of the index tip
\* gives ZoomIn and no orientation.
C29_FistZoomInOrUnknown ==
  HasHand =>
    (gestureFistClosed =>
       /\ HandFingers = <<0, 0, 0, 0>>
       /\ currentGesture \in {"ZOOM IN", "UNKNOWN"}
       /\ HandPinch < 5 => (currentGesture = "ZOOM IN" /\ ~RawOrientation)
       /\ HandPinch >= 5 => currentGesture = "UNKNOWN")

\* A pinching fist has been classified as ZoomIn, without orientation.
C29_Witness ==
  /\ HasHand
  /\ gestureFistClosed
  /\ HandFingers = <<0, 0, 0, 0>>
  /\ HandPinch < 5
  /\ currentGesture = "ZOOM IN"
  /\ ~RawOrientation

====
